---- MODULE Spec2Model ----
(***************************************************************************)
(* graceful-shutdown: the run of the tool as a state machine.              *)
(*                                                                         *)
(* run (main.rs) loads the patterns, builds the list of matched processes, *)
(* and then either lists them (dry_run) or drives real_run: the terminate  *)
(* phase, the polling wait and the kill phase.  The operating system is    *)
(* the environment: which pids are present in the process table, what the  *)
(* kill primitive answers, and how much time passes between two readings   *)
(* of the clock.                                                           *)
(*                                                                         *)
(* Time is counted in ticks of 100 ms, the sleep of the waiting loop.  The  *)
(* clock is read by `start.elapsed()`; between Instant::now() or the end   *)
(* of a poll and the next reading any number of ticks may have passed, so  *)
(* a wait can be over before the first poll (a --wait-time shorter than    *)
(* the time the program needs to reach its loop behaves the same).         *)
(*                                                                         *)
(* The functions the run is built from (the matcher, the enumeration of    *)
(* /proc, parse_cmdline, strip_comment, Signal::from_str) are operators    *)
(* over strings, a string being a sequence of one-character strings.  The  *)
(* specification SpecFn calls each of them on every argument of a bounded  *)
(* set.  The specification SpecLive is Spec with the program's thread     *)
(* scheduled (weak fairness of its steps), for termination.                *)
(***************************************************************************)
EXTENDS Integers, Sequences, FiniteSets, TLC

\* ---------------------------------------------------------------- bounds
\* Number of entries of the process table (pids 1..MaxProcs).
MaxProcs == 2

\* Largest --wait-time a run is started with, in ticks.
MaxWait == 2

\* The sleep of one waiting-loop iteration, Duration::from_millis(100), in
\* ticks.
SleepTicks == 1

Pids == 1..MaxProcs

\* ----------------------------------------------------------------- state
VARIABLES
    opts,       \* Options: [dry_run, kill, wait_time, output_mode]
    pc,         \* position of the program
    selected,   \* the Vec<Process> all_processes returned (discovery order)
    processes,  \* real_run's `processes` vector: the tracked set
    i,          \* index of the element a retain / for loop is visiting
    success,    \* real_run's `success`
    result,     \* what run returned: "none", "Ok(true)", "Ok(false)", "Err"
    err,        \* what the environment made fail: "none", "patterns", "user",
                \* "enumeration" (recorded when run starts)
    exit_code,  \* status main exits with, -1 while running
    alive,      \* OS: alive[p] iff /proc/<p> exists; a pid that left the
                \* table is not given to a new process during the run
    elapsed,    \* start.elapsed(), saturating at wait_time (every reading
                \* >= wait_time compares the same)
    polls,      \* number of liveness polls (rounds of the waiting loop) begun
    calls,      \* OS calls made on processes so far, in order
    out,        \* lines printed so far, in order
    call,       \* a function of the program called on its own: its name and
                \* its arguments ([fn |-> "run"] for a run of the tool)
    ret         \* what that call returned: None until it has, then Some(v)

vars == <<opts, pc, selected, processes, i, success, result, err,
          exit_code, alive, elapsed, polls, calls, out, call, ret>>

\* ------------------------------------------------------- Option<Duration>
None == <<>>

Some(x) == <<x>>

IsSome(o) == Len(o) = 1

Unwrap(o) == o[1]

\* --------------------------------------------------------------- helpers
Min(a, b) == IF a < b THEN a ELSE b

\* A removal that also loses the element after the removed one.
RemoveAtSkipsNext(s, k) == SubSeq(s, 1, k - 1) \o SubSeq(s, k + 2, Len(s))

\* Vec::retain dropping the element it is visiting: the later elements move up
\* one place, in order.
RemoveAt(s, k) == SubSeq(s, 1, k - 1) \o SubSeq(s, k + 1, Len(s))

Range(s) == {s[k] : k \in 1..Len(s)}

\* ------------------------------------------------------------ options.rs
OutputModes == {"Normal", "Verbose", "Quiet"}

\* OutputMode::show_normal
show_normal(mode) == mode \in {"Verbose", "Normal"}

\* OutputMode::show_verbose
show_verbose(mode) == mode = "Verbose"

\* The command lines a run is started with.  --verbose and --quiet override
\* each other, so both set never reaches Options::from.
CliOptions ==
    {c \in [wait_time : -1..MaxWait, no_kill : BOOLEAN, dry_run : BOOLEAN,
            verbose : BOOLEAN, quiet : BOOLEAN] : ~(c.verbose /\ c.quiet)}

\* Options::from with `>= 0.0` for `> 0.0`: a wait of zero stays Some(0).
OptionsFromKeepsZeroWait(cli) ==
    [dry_run     |-> cli.dry_run,
     kill        |-> ~cli.no_kill,
     wait_time   |-> IF cli.wait_time >= 0 THEN Some(cli.wait_time) ELSE None,
     output_mode |-> IF cli.dry_run THEN "Verbose"
                     ELSE IF cli.verbose THEN "Verbose"
                     ELSE IF cli.quiet THEN "Quiet"
                     ELSE "Normal"]

\* impl From<CliOptions> for Options
OptionsFrom(cli) ==
    [dry_run     |-> cli.dry_run,
     kill        |-> ~cli.no_kill,
     wait_time   |-> IF cli.wait_time > 0 THEN Some(cli.wait_time) ELSE None,
     output_mode |-> IF cli.dry_run THEN "Verbose"
                     ELSE IF cli.verbose THEN "Verbose"
                     ELSE IF cli.quiet THEN "Quiet"
                     ELSE "Normal"]

\* ---------------------------------------------------------- processes.rs
\* Outcomes of the kill(2) primitive for pid p: a pid that is not in the
\* process table answers ESRCH, one that is there never does.
KillOutcomes(p) ==
    IF alive[p] THEN {"OK", "EINVAL", "EPERM", "EOTHER"}
    ELSE {"ESRCH", "EINVAL", "EOTHER"}

\* What kill(2) can answer: OK for Ok(()), else an errno; EOTHER and EFAULT
\* stand for the errnos send has no arm for.
Errnos == {"OK", "EINVAL", "EPERM", "ESRCH", "EOTHER", "EFAULT"}

\* Process::send with EPERM taken for ESRCH.
SendPermissionIsGone(errno) ==
    CASE errno = "OK"     -> "Ok"
      [] errno = "EINVAL" -> "InvalidSignal"
      [] errno = "EPERM"  -> "DoesNotExist"
      [] errno = "ESRCH"  -> "DoesNotExist"
      [] OTHER            -> "UnexpectedError"

\* Process::send: the errno of kill mapped to Result<(), KillError>.
Send(errno) ==
    CASE errno = "OK"     -> "Ok"
      [] errno = "EINVAL" -> "InvalidSignal"
      [] errno = "EPERM"  -> "NoPermission"
      [] errno = "ESRCH"  -> "DoesNotExist"
      [] OTHER            -> "UnexpectedError"

\* is_alive with its answer turned round.
is_alive_Inverted(p) == ~alive[p]

\* Process::is_alive
is_alive(p) == alive[p]

\* ---------------------------------------------------------------- main.rs
\* send_with_error_handling with NoPermission taken for a success.
send_with_error_handling_PermissionOk(res) ==
    res \in {"Ok", "DoesNotExist", "NoPermission"}

\* send_with_error_handling without the DoesNotExist arm.
send_with_error_handling_DoesNotExistFails(res) == res = "Ok"

\* send_with_error_handling with UnexpectedError taken for a success.
send_with_error_handling_UnexpectedOk(res) ==
    res \in {"Ok", "DoesNotExist", "UnexpectedError"}

\* send_with_error_handling with InvalidSignal taken for a success.
send_with_error_handling_InvalidSignalOk(res) ==
    res \in {"Ok", "DoesNotExist", "InvalidSignal"}

\* send_with_error_handling: the bool it returns for a result of send.
send_with_error_handling(res) ==
    CASE res = "Ok"           -> TRUE
      [] res = "DoesNotExist" -> TRUE
      [] OTHER                -> FALSE

\* The line send_with_error_handling prints for a failed send.
SendErrorOutput(sig, p, res) ==
    IF send_with_error_handling(res) THEN <<>>
    ELSE <<[kind |-> "failed", sig |-> sig, pid |-> p]>>

\* verbose_signal_message
verbose_signal_message(sig, p) ==
    IF show_verbose(opts.output_mode)
    THEN <<[kind |-> "sending", sig |-> sig, pid |-> p]>>
    ELSE <<>>

SendCall(sig, p, res) == [op |-> "send", sig |-> sig, pid |-> p, res |-> res]

PollCall(p, a) ==
    [op |-> "is_alive", sig |-> "none", pid |-> p,
     res |-> IF a THEN "alive" ELSE "dead"]

\* all_processes: the entries that resolved (flat_map(Result::ok)) and that
\* the matcher accepts, in the order of the process table.
all_processes(table, resolved, matched) ==
    SelectSeq(table, LAMBDA p : p \in resolved /\ p \in matched)

\* The process table in enumeration order.
ProcTable == [k \in 1..MaxProcs |-> k]

\* dry_run: the lines it prints.
DryRunOutput(procs) ==
    IF ~show_normal(opts.output_mode) THEN <<>>
    ELSE [k \in 1..Len(procs) |->
            [kind |-> "would", sig |-> "terminate_signal", pid |-> procs[k]]]

Init ==
    /\ opts \in {OptionsFrom(c) : c \in CliOptions}
    /\ pc = "run"
    /\ selected = <<>>
    /\ processes = <<>>
    /\ i = 1
    /\ success = TRUE
    /\ result = "none"
    /\ err = "none"
    /\ exit_code = -1
    /\ alive = [p \in Pids |-> TRUE]
    /\ elapsed = 0
    /\ polls = 0
    /\ calls = <<>>
    /\ out = <<>>
    /\ call = [fn |-> "run"]
    /\ ret = None

\* load_patterns: RegexSetBuilder::build fails on a pattern that does not
\* compile.  The patterns come from a pipe: stdin is not a terminal, and the
\* warning for a terminal is not printed.
load_patterns(patterns) == IF patterns = "bad" THEN "Err" ELSE "Ok"

\* process_iter with the failure to read /proc swallowed.
process_iter_IgnoresProcError(user_mode, user_found, proc_ok) ==
    IF user_mode = "Only" /\ ~user_found THEN "Err" ELSE "Ok"

\* The iterator all_processes starts from: find_user_by_name fails for an
\* unknown user name, Process::all / all_from_user fail when /proc cannot be
\* read.
process_iter(user_mode, user_found, proc_ok) ==
    IF user_mode = "Only" /\ ~user_found THEN "Err"
    ELSE IF ~proc_ok THEN "Err"
    ELSE "Ok"

\* What the environment made fail, in the order run meets it.
Fault(patterns, user_mode, user_found, proc_ok) ==
    IF patterns = "bad" THEN "patterns"
    ELSE IF user_mode = "Only" /\ ~user_found THEN "user"
    ELSE IF ~proc_ok THEN "enumeration"
    ELSE "none"

\* run without the dry_run branch.
RunDispatchIgnoresDryRun(o) == "real_run"

\* run's `if options.dry_run`.
RunDispatch(o) == IF o.dry_run THEN "dry_run" ELSE "real_run"

\* run, up to the call of dry_run / real_run: load_patterns, all_processes
\* (each `?` returns the Err), then dry_run as a whole or the start of
\* real_run.
Run ==
    /\ pc = "run"
    /\ \E patterns \in {"ok", "bad"},
          user_mode \in {"Everybody", "OnlyMe", "Only"},
          user_found \in BOOLEAN, proc_ok \in BOOLEAN,
          resolved \in SUBSET Pids, matched \in SUBSET Pids :
        LET procs == all_processes(ProcTable, resolved, matched)
        IN  /\ err' = Fault(patterns, user_mode, user_found, proc_ok)
            /\ IF load_patterns(patterns) = "Err"
                  \/ process_iter(user_mode, user_found, proc_ok) = "Err"
               THEN /\ result' = "Err"
                    /\ pc' = "returned"
                    /\ UNCHANGED <<selected, processes, out>>
               ELSE /\ selected' = procs
                    /\ IF RunDispatch(opts) = "dry_run"
                       THEN /\ out' = out \o DryRunOutput(procs)
                            /\ result' = "Ok(true)"
                            /\ pc' = "returned"
                            /\ UNCHANGED processes
                       ELSE /\ out' = out
                            /\ processes' = procs
                            /\ result' = result
                            /\ pc' = "terminate"
    /\ i' = 1
    /\ success' = TRUE
    /\ UNCHANGED <<call, ret, opts, exit_code, alive, elapsed, polls, calls>>

\* One element of the terminate phase's retain: send terminate_signal, keep
\* the process when send_with_error_handling says true, else drop it and
\* clear success.
TerminateSend ==
    /\ pc = "terminate"
    /\ i <= Len(processes)
    /\ LET p == processes[i] IN
       \E errno \in KillOutcomes(p) :
         LET res == Send(errno)
             keep == send_with_error_handling(res)
         IN  /\ calls' = Append(calls, SendCall("terminate_signal", p, res))
             /\ out' = out \o verbose_signal_message("terminate_signal", p)
                           \o SendErrorOutput("terminate_signal", p, res)
             /\ IF keep
                THEN /\ i' = i + 1
                     /\ UNCHANGED <<processes, success>>
                ELSE /\ processes' = RemoveAt(processes, i)
                     /\ success' = FALSE
                     /\ i' = i
    /\ UNCHANGED <<call, ret, opts, pc, selected, result, err, exit_code, alive,
                   elapsed, polls>>

\* The retain is over: `if let Some(wait_time) = options.wait_time` either
\* starts the clock or falls through to Ok(success).
TerminateDone ==
    /\ pc = "terminate"
    /\ i > Len(processes)
    /\ IF IsSome(opts.wait_time)
       THEN /\ pc' = "check"
            /\ elapsed' = 0
            /\ UNCHANGED result
       ELSE /\ pc' = "returned"
            /\ result' = IF success THEN "Ok(true)" ELSE "Ok(false)"
            /\ UNCHANGED elapsed
    /\ UNCHANGED <<call, ret, opts, selected, processes, i, success, err, exit_code,
                   alive, polls, calls, out>>

\* The waiting loop left at its first test, whatever the clock says.
LoopCheckNeverWaits ==
    /\ pc = "check"
    /\ pc' = "timeout"
    /\ UNCHANGED <<call, ret, opts, selected, processes, i, success, result, err,
                   exit_code, alive, elapsed, polls, calls, out>>

\* The condition of `while start.elapsed() < wait_time`.
LoopCheck ==
    /\ pc = "check"
    /\ pc' = IF elapsed < Unwrap(opts.wait_time) THEN "sleep" ELSE "timeout"
    /\ UNCHANGED <<call, ret, opts, selected, processes, i, success, result, err,
                   exit_code, alive, elapsed, polls, calls, out>>

\* A sleep during which the clock stands still.
SleepTakesNoTime ==
    /\ pc = "sleep"
    /\ pc' = "poll"
    /\ i' = 1
    /\ polls' = polls + 1
    /\ UNCHANGED <<call, ret, opts, selected, processes, success, result, err,
                   exit_code, alive, elapsed, calls, out>>

\* thread::sleep(100 ms), then the retain of the poll starts.
Sleep ==
    /\ pc = "sleep"
    /\ elapsed' = Min(elapsed + SleepTicks, Unwrap(opts.wait_time))
    /\ pc' = "poll"
    /\ i' = 1
    /\ polls' = polls + 1
    /\ UNCHANGED <<call, ret, opts, selected, processes, success, result, err,
                   exit_code, alive, calls, out>>

\* One element of the poll's retain: keep the process iff is_alive.
Poll ==
    /\ pc = "poll"
    /\ i <= Len(processes)
    /\ LET p == processes[i]
           a == is_alive(p)
       IN  /\ calls' = Append(calls, PollCall(p, a))
           /\ out' = IF show_verbose(opts.output_mode) /\ ~a
                     THEN Append(out, [kind |-> "shut_down", sig |-> "none",
                                       pid |-> p])
                     ELSE out
           /\ IF a
              THEN /\ i' = i + 1
                   /\ UNCHANGED processes
              ELSE /\ processes' = RemoveAt(processes, i)
                   /\ i' = i
    /\ UNCHANGED <<call, ret, opts, pc, selected, success, result, err,
                   exit_code, alive, elapsed, polls>>

\* The waiting loop without its early return.
AllDeadNever(procs) == FALSE

\* `if processes.is_empty()` after a poll.
AllDead(procs) == procs = <<>>

\* The poll's retain is over: return Ok(success) when nothing is left, else
\* go round the loop.
PollDone ==
    /\ pc = "poll"
    /\ i > Len(processes)
    /\ IF AllDead(processes)
       THEN /\ pc' = "returned"
            /\ result' = IF success THEN "Ok(true)" ELSE "Ok(false)"
       ELSE /\ pc' = "check"
            /\ UNCHANGED result
    /\ UNCHANGED <<call, ret, opts, selected, processes, i, success, err,
                   exit_code, alive, elapsed, polls, calls, out>>

\* The lines of the branch taken when time is up and --no-kill is given.
StillAliveOutput ==
    (IF show_normal(opts.output_mode)
     THEN <<[kind |-> "still_alive_warning", sig |-> "none", pid |-> 0]>>
     ELSE <<>>)
    \o (IF show_verbose(opts.output_mode)
        THEN [k \in 1..Len(processes) |->
                [kind |-> "still_alive", sig |-> "none", pid |-> processes[k]]]
        ELSE <<>>)

\* The timed-out branch killing whatever options.kill says.
TimeoutBranchAlwaysKill(o) == "kill"

\* The timed-out branch with the test of options.kill inverted.
TimeoutBranchInverted(o) == IF o.kill THEN "give_up" ELSE "kill"

\* `if options.kill` of the branch taken when time is up.
TimeoutBranch(o) == IF o.kill THEN "kill" ELSE "give_up"

\* "Time is up": with options.kill the kill loop starts, without it the run
\* is a failure and returns.
Timeout ==
    /\ pc = "timeout"
    /\ IF TimeoutBranch(opts) = "kill"
       THEN /\ out' = IF show_verbose(opts.output_mode)
                      THEN Append(out, [kind |-> "timeout_reached",
                                        sig |-> "none", pid |-> 0])
                      ELSE out
            /\ pc' = "kill"
            /\ i' = 1
            /\ UNCHANGED <<success, result>>
       ELSE /\ out' = out \o StillAliveOutput
            /\ success' = FALSE
            /\ result' = "Ok(false)"
            /\ pc' = "returned"
            /\ UNCHANGED i
    /\ UNCHANGED <<call, ret, opts, selected, processes, err, exit_code, alive,
                   elapsed, polls, calls>>

\* The kill loop with success set to the outcome of the send it has just made.
KillSendResetsSuccess ==
    /\ pc = "kill"
    /\ i <= Len(processes)
    /\ LET p == processes[i] IN
       \E errno \in KillOutcomes(p) :
         LET res == Send(errno) IN
           /\ calls' = Append(calls, SendCall("kill_signal", p, res))
           /\ out' = out \o verbose_signal_message("kill_signal", p)
                         \o SendErrorOutput("kill_signal", p, res)
           /\ success' = send_with_error_handling(res)
    /\ i' = i + 1
    /\ UNCHANGED <<call, ret, opts, pc, selected, processes, result, err,
                   exit_code, alive, elapsed, polls>>

\* One element of the kill loop: send kill_signal; a failure clears success
\* and the loop goes on.
KillSend ==
    /\ pc = "kill"
    /\ i <= Len(processes)
    /\ LET p == processes[i] IN
       \E errno \in KillOutcomes(p) :
         LET res == Send(errno) IN
           /\ calls' = Append(calls, SendCall("kill_signal", p, res))
           /\ out' = out \o verbose_signal_message("kill_signal", p)
                         \o SendErrorOutput("kill_signal", p, res)
           /\ success' = IF send_with_error_handling(res) THEN success
                         ELSE FALSE
    /\ i' = i + 1
    /\ UNCHANGED <<call, ret, opts, pc, selected, processes, result, err,
                   exit_code, alive, elapsed, polls>>

\* The kill loop is over: Ok(success).
KillDone ==
    /\ pc = "kill"
    /\ i > Len(processes)
    /\ pc' = "returned"
    /\ result' = IF success THEN "Ok(true)" ELSE "Ok(false)"
    /\ UNCHANGED <<call, ret, opts, selected, processes, i, success, err,
                   exit_code, alive, elapsed, polls, calls, out>>

\* main with exit(0) for every Ok.
ExitStatusOkIsZero(r) == IF r = "Err" THEN 1 ELSE 0

\* The status main exits with for a result of run.
ExitStatus(r) == IF r = "Ok(true)" THEN 0 ELSE 1

\* main: exit with the status of the result; an Err is printed unless quiet.
Main ==
    /\ pc = "returned"
    /\ exit_code' = ExitStatus(result)
    /\ out' = IF result = "Err" /\ show_normal(opts.output_mode)
              THEN Append(out, [kind |-> "error", sig |-> "none", pid |-> 0])
              ELSE out
    /\ pc' = "exited"
    /\ UNCHANGED <<call, ret, opts, selected, processes, i, success, result, err,
                   alive, elapsed, polls, calls>>

\* ------------------------------------------------------------ environment
\* The loops of real_run that call the OS on a process.
Running == pc \in {"terminate", "poll", "kill"}

\* A process exits: its pid leaves the process table.  The program sees the
\* process table only through the call it makes on the process it is
\* visiting, so an exit is taken at the latest point before that call: every
\* sequence of answers the OS can give is still there.
Die(p) ==
    /\ Running
    /\ i <= Len(processes)
    /\ processes[i] = p
    /\ alive[p]
    /\ alive' = [alive EXCEPT ![p] = FALSE]
    /\ UNCHANGED <<call, ret, opts, pc, selected, processes, i, success, result,
                   err, exit_code, elapsed, polls, calls, out>>

\* Time passes between Instant::now() / the end of a poll and the next
\* reading of the clock.
Tick ==
    /\ pc = "check"
    /\ elapsed < Unwrap(opts.wait_time)
    /\ elapsed' = elapsed + 1
    /\ UNCHANGED <<call, ret, opts, pc, selected, processes, i, success, result,
                   err, exit_code, alive, polls, calls, out>>

Next ==
    \/ Run
    \/ TerminateSend
    \/ TerminateDone
    \/ LoopCheck
    \/ Sleep
    \/ Poll
    \/ PollDone
    \/ Timeout
    \/ KillSend
    \/ KillDone
    \/ Main
    \/ \E p \in Pids : Die(p)
    \/ Tick

Spec == Init /\ [][Next]_vars

\* The steps of the program, as opposed to those of its environment.
Program ==
    \/ Run
    \/ TerminateSend
    \/ TerminateDone
    \/ LoopCheck
    \/ Sleep
    \/ Poll
    \/ PollDone
    \/ Timeout
    \/ KillSend
    \/ KillDone
    \/ Main

\* The run with its thread scheduled: no call it makes blocks for ever (kill,
\* the reads of /proc and a sleep of 100 ms all return), so as long as the
\* program has a step to take it takes one.
SpecLive == Init /\ [][Next]_vars /\ WF_vars(Program)

\* ================================================== functions of the run
\* Longest string a function is called on.
MaxLen == 4

\* The strings over alphabet A, up to MaxLen characters.
StringsOver(A) == UNION {[1..n -> A] : n \in 0..MaxLen}

\* char::is_whitespace, on the characters used here.
Whitespace == {" ", "\t"}

\* str::replace for a one-character pattern.
Replace(s, from, to) == [k \in 1..Len(s) |-> IF s[k] = from THEN to ELSE s[k]]

RECURSIVE TrimEnd(_)
\* str::trim_end
TrimEnd(s) ==
    IF s # <<>> /\ s[Len(s)] \in Whitespace
    THEN TrimEnd(SubSeq(s, 1, Len(s) - 1))
    ELSE s

RECURSIVE TrimStart(_)
\* str::trim_start
TrimStart(s) ==
    IF s # <<>> /\ s[1] \in Whitespace THEN TrimStart(Tail(s)) ELSE s

\* str::trim
Trim(s) == TrimStart(TrimEnd(s))

\* str::find for a character: the first position of c in s, 0 for None.
Find(s, c) ==
    IF \E k \in 1..Len(s) : s[k] = c
    THEN CHOOSE k \in 1..Len(s) : s[k] = c /\ \A j \in 1..(k - 1) : s[j] # c
    ELSE 0

\* ------------------------------------------------------- parse_cmdline
\* The bytes of /proc/<pid>/cmdline: arguments, each ended by NUL.
CmdChars == {"a", "NUL", " ", "\t"}

\* parse_cmdline without the trim_end.
parse_cmdline_NoTrim(cmdline) == Replace(cmdline, "NUL", " ")

\* parse_cmdline: cmdline.replace("\0", " ").trim_end()
parse_cmdline(cmdline) == TrimEnd(Replace(cmdline, "NUL", " "))

\* ------------------------------------------------------- strip_comment
\* The characters of a line of the pattern input.
LineChars == {"a", "#", " "}

\* strip_comment: line[0..index].trim() at the first '#', else the line.
strip_comment(line) ==
    IF Find(line, "#") > 0
    THEN Trim(SubSeq(line, 1, Find(line, "#") - 1))
    ELSE line

\* load_patterns: .filter(|s| !s.is_empty()), the lines kept as patterns.
is_pattern(s) == s # <<>>

\* --------------------------------------------------------------- letters
\* The ASCII letters, lower case and upper case.
Letters ==
    << <<"a", "A">>, <<"b", "B">>, <<"c", "C">>, <<"d", "D">>, <<"e", "E">>,
       <<"f", "F">>, <<"g", "G">>, <<"h", "H">>, <<"i", "I">>, <<"j", "J">>,
       <<"k", "K">>, <<"l", "L">>, <<"m", "M">>, <<"n", "N">>, <<"o", "O">>,
       <<"p", "P">>, <<"q", "Q">>, <<"r", "R">>, <<"s", "S">>, <<"t", "T">>,
       <<"u", "U">>, <<"v", "V">>, <<"w", "W">>, <<"x", "X">>, <<"y", "Y">>,
       <<"z", "Z">> >>

\* char::to_ascii_uppercase
to_ascii_uppercase(c) ==
    IF \E k \in 1..Len(Letters) : Letters[k][1] = c
    THEN Letters[CHOOSE k \in 1..Len(Letters) : Letters[k][1] = c][2]
    ELSE c

\* char::to_ascii_lowercase
to_ascii_lowercase(c) ==
    IF \E k \in 1..Len(Letters) : Letters[k][2] = c
    THEN Letters[CHOOSE k \in 1..Len(Letters) : Letters[k][2] = c][1]
    ELSE c

\* str::make_ascii_uppercase
make_ascii_uppercase(s) == [k \in 1..Len(s) |-> to_ascii_uppercase(s[k])]

\* str::to_ascii_lowercase
make_ascii_lowercase(s) == [k \in 1..Len(s) |-> to_ascii_lowercase(s[k])]

\* ----------------------------------------------------------- i32::from_str
Digits == <<"0", "1", "2", "3", "4", "5", "6", "7", "8", "9">>

IsDigit(c) == \E k \in 1..Len(Digits) : Digits[k] = c

DigitValue(c) == (CHOOSE k \in 1..Len(Digits) : Digits[k] = c) - 1

MaxI32 == 2147483647

MinI32 == -2147483647 - 1

RECURSIVE CheckedDigits(_, _, _)
\* The digits read left to right with checked_mul and checked_add (checked_sub
\* below zero): None on overflow.
CheckedDigits(digits, acc, sign) ==
    IF digits = <<>> THEN Some(acc)
    ELSE LET d == DigitValue(Head(digits))
         IN  IF sign = 1
             THEN IF acc > (MaxI32 - d) \div 10 THEN None
                  ELSE CheckedDigits(Tail(digits), acc * 10 + d, sign)
             ELSE IF acc < (MinI32 + d + 9) \div 10 THEN None
                  ELSE CheckedDigits(Tail(digits), acc * 10 - d, sign)

\* str::parse::<i32>: an optional sign, then one or more digits, the value
\* within i32; None for anything else.
ParseI32(s) ==
    IF s = <<>> THEN None
    ELSE LET digits == IF s[1] \in {"+", "-"} THEN Tail(s) ELSE s
             sign == IF s[1] = "-" THEN -1 ELSE 1
         IN  IF digits = <<>> \/ \E k \in 1..Len(digits) : ~IsDigit(digits[k])
             THEN None
             ELSE CheckedDigits(digits, 0, sign)

\* ---------------------------------------------------------------- Matcher
MatchModes == {"Basename", "Commandline"}

\* Words the names, command lines and patterns are made of.
foo == <<"f", "o", "o">>
barfoo == <<"b", "a", "r", "f", "o", "o">>
baz == <<"b", "a", "z">>
FOO == <<"F", "O", "O">>
oO == <<"o", "O">>
sh == <<"s", "h">>

\* The patterns of a pattern set: each a literal.
PatternPool == {foo, oO, baz}

\* The names and command lines of the processes matched.
FieldPool == {foo, barfoo, baz, FOO, sh}

\* text has needle in it, at some offset.
Contains(text, needle) ==
    \E k \in 0..(Len(text) - Len(needle)) :
        SubSeq(text, k + 1, k + Len(needle)) = needle

\* A pattern that is a literal, compiled with case_insensitive(true): it
\* matches anywhere in the text, letter case apart.
regex_is_match(pattern, text) ==
    Contains(make_ascii_lowercase(text), make_ascii_lowercase(pattern))

\* RegexSet::is_match: some pattern of the set matches.
regex_set_is_match(regex_set, text) ==
    \E pattern \in regex_set : regex_is_match(pattern, text)

\* is_match that looks at the name in every mode.
is_match_IgnoresMode(matcher, process) ==
    regex_set_is_match(matcher.regex_set, process.name)

\* Matcher::is_match
is_match(matcher, process) ==
    IF matcher.mode = "Basename"
    THEN regex_set_is_match(matcher.regex_set, process.name)
    ELSE regex_set_is_match(matcher.regex_set, process.cmdline)

\* Matcher::new
Matcher(regex_set, mode) == [regex_set |-> regex_set, mode |-> mode]

\* ------------------------------------------------------------ enumeration
\* Longest listing of /proc read.
MaxDir == 3

\* Result<T, E>
Ok(v) == [ok |-> TRUE, val |-> v]
Err(e) == [ok |-> FALSE, val |-> e]

\* An item of read_dir("/proc") that was read: whether it is a directory, its
\* name, and what the three reads of from_entry find there: the target of the
\* exe link, the bytes of cmdline, the owner; None for a read that fails.
DirEntry(dir, file_name, exe, cmdline, uid) ==
    [read |-> "Ok", is_dir |-> dir, file_name |-> file_name, exe |-> exe,
     cmdline |-> cmdline, uid |-> uid]

\* An item of read_dir("/proc") that is an error.
IoError ==
    [read |-> "Err", is_dir |-> FALSE, file_name |-> <<>>, exe |-> None,
     cmdline |-> None, uid |-> None]

bin == <<"b", "i", "n">>

\* The entries a listing of /proc is made of: three processes that resolve,
\* foo and baz of user 0 and barfoo of user 1, and one entry for each way of
\* not being a process or of not resolving.
DirPool ==
    { DirEntry(TRUE, <<"1">>, Some(<<bin, foo>>),
               Some(foo \o <<"NUL">>), Some(0)),
      DirEntry(TRUE, <<"2">>, Some(<<bin, barfoo>>),
               Some(sh \o <<"NUL">> \o barfoo \o <<"NUL">>), Some(1)),
      DirEntry(TRUE, <<"3">>, Some(<<bin, baz>>),
               Some(baz \o <<"NUL">> \o foo \o <<"NUL">>), Some(0)),
      IoError,
      DirEntry(FALSE, <<"u", "p", "t", "i", "m", "e">>, None, None, Some(0)),
      DirEntry(TRUE, <<"s", "y", "s">>, None, None, Some(0)),
      DirEntry(TRUE, <<"9", "9", "9", "9", "9", "9", "9", "9", "9", "9">>,
               Some(<<bin, foo>>), Some(foo \o <<"NUL">>), Some(0)),
      DirEntry(TRUE, <<"4">>, None, Some(foo \o <<"NUL">>), Some(0)),
      DirEntry(TRUE, <<"5">>, Some(<<bin, foo>>), None, Some(0)),
      DirEntry(TRUE, <<"6">>, Some(<<bin, foo>>), Some(foo \o <<"NUL">>),
               None) }

\* The listings: up to MaxDir entries, no entry twice.
Listings ==
    UNION {{l \in [1..n -> DirPool] :
              \A j, k \in 1..n : j # k => l[j] # l[k]} : n \in 0..MaxDir}

\* is_dir: file_type() says directory; false when file_type() fails.
is_dir(entry) == entry.is_dir

\* has_numeric_name
has_numeric_name(entry) ==
    \A k \in 1..Len(entry.file_name) : IsDigit(entry.file_name[k])

\* Path::file_name: the last component.
file_name(path) == path[Len(path)]

\* Process::from_entry: the pid parsed from the name, then the exe link, the
\* cmdline file and the owner, the first failure being the error.
from_entry(entry) ==
    IF ~IsSome(ParseI32(entry.file_name)) THEN Err("Failed to parse PID")
    ELSE IF ~IsSome(entry.exe) THEN Err("Failed to determine executable")
    ELSE IF ~IsSome(entry.cmdline) THEN Err("Could not open file")
    ELSE IF ~IsSome(entry.uid) THEN Err("Could not stat")
    ELSE Ok([pid |-> Unwrap(ParseI32(entry.file_name)),
             user_id |-> Unwrap(entry.uid),
             name |-> file_name(Unwrap(entry.exe)),
             cmdline |-> parse_cmdline(Unwrap(entry.cmdline))])

RECURSIVE ProcessIterator_StopsAtIoError(_)
\* ProcessIterator that ends at the first item of read_dir that is an error.
ProcessIterator_StopsAtIoError(read_dir) ==
    IF read_dir = <<>> THEN <<>>
    ELSE IF Head(read_dir).read = "Err" THEN <<>>
    ELSE IF is_dir(Head(read_dir)) /\ has_numeric_name(Head(read_dir))
    THEN <<from_entry(Head(read_dir))>>
            \o ProcessIterator_StopsAtIoError(Tail(read_dir))
    ELSE ProcessIterator_StopsAtIoError(Tail(read_dir))

RECURSIVE ProcessIterator(_)
\* ProcessIterator, as the items its next() gives until None: from_entry of
\* every directory with a numeric name, whatever from_entry returns; the
\* errors of read_dir and the other entries are passed over.
ProcessIterator(read_dir) ==
    IF read_dir = <<>> THEN <<>>
    ELSE IF Head(read_dir).read = "Err" THEN ProcessIterator(Tail(read_dir))
    ELSE IF is_dir(Head(read_dir)) /\ has_numeric_name(Head(read_dir))
    THEN <<from_entry(Head(read_dir))>> \o ProcessIterator(Tail(read_dir))
    ELSE ProcessIterator(Tail(read_dir))

\* UserFilter that lets every process through.
UserFilter_KeepsAll(user, items) == items

\* UserFilter, as the items its next() gives: the processes of the user; an
\* error item goes through as it is.
UserFilter(user, items) ==
    SelectSeq(items, LAMBDA x : ~x.ok \/ x.val.user_id = user)

\* Process::all
Process_all(read_dir) == ProcessIterator(read_dir)

\* Process::all_from_user
Process_all_from_user(user, read_dir) ==
    UserFilter(user, ProcessIterator(read_dir))

\* flat_map(Result::ok): the values of the Ok items.
flat_map_ok(iter) ==
    LET oks == SelectSeq(iter, LAMBDA x : x.ok)
    IN  [k \in 1..Len(oks) |-> oks[k].val]

\* The users of the processes.
Uids == {0, 1}

\* options.user_mode with the user looked up: None for Everybody, the uid
\* for OnlyMe and Only(name).
UserModes == {None} \cup {Some(u) : u \in Uids}

\* The iterator all_processes starts from.
iter_of(user_mode, read_dir) ==
    IF user_mode = None THEN Process_all(read_dir)
    ELSE Process_all_from_user(Unwrap(user_mode), read_dir)

\* all_processes' chain without the filter.
select_processes_NoFilter(iter, matcher) == flat_map_ok(iter)

\* all_processes' chain: iter.flat_map(Result::ok).filter(is_match).collect()
select_processes(iter, matcher) ==
    SelectSeq(flat_map_ok(iter), LAMBDA process : is_match(matcher, process))

\* The matchers all_processes is called with.
MatcherPool ==
    {Matcher({foo}, "Basename"), Matcher({foo}, "Commandline"),
     Matcher({}, "Basename")}

\* ----------------------------------------------------------------- Signal
\* A signal: its basename and its number.
Sig(basename, number) == [basename |-> basename, number |-> number]

\* Signal::iterator: the signals in the order it gives them, each with the
\* basename of Signal::basename and the number of Signal::number.
Catalog ==
    <<
       Sig(<<"H", "U", "P">>, 1),
       Sig(<<"I", "N", "T">>, 2),
       Sig(<<"Q", "U", "I", "T">>, 3),
       Sig(<<"I", "L", "L">>, 4),
       Sig(<<"T", "R", "A", "P">>, 5),
       Sig(<<"A", "B", "R", "T">>, 6),
       Sig(<<"B", "U", "S">>, 7),
       Sig(<<"F", "P", "E">>, 8),
       Sig(<<"K", "I", "L", "L">>, 9),
       Sig(<<"U", "S", "R", "1">>, 10),
       Sig(<<"S", "E", "G", "V">>, 11),
       Sig(<<"U", "S", "R", "2">>, 12),
       Sig(<<"P", "I", "P", "E">>, 13),
       Sig(<<"A", "L", "R", "M">>, 14),
       Sig(<<"T", "E", "R", "M">>, 15),
       Sig(<<"S", "T", "K", "F", "L", "T">>, 16),
       Sig(<<"C", "H", "L", "D">>, 17),
       Sig(<<"C", "O", "N", "T">>, 18),
       Sig(<<"S", "T", "O", "P">>, 19),
       Sig(<<"T", "S", "T", "P">>, 20),
       Sig(<<"T", "T", "I", "N">>, 21),
       Sig(<<"T", "T", "O", "U">>, 22),
       Sig(<<"U", "R", "G">>, 23),
       Sig(<<"X", "C", "P", "U">>, 24),
       Sig(<<"X", "F", "S", "Z">>, 25),
       Sig(<<"V", "T", "A", "L", "R", "M">>, 26),
       Sig(<<"P", "R", "O", "F">>, 27),
       Sig(<<"W", "I", "N", "C", "H">>, 28),
       Sig(<<"I", "O">>, 29),
       Sig(<<"P", "W", "R">>, 30),
       Sig(<<"S", "Y", "S">>, 31) >>

\* Signal::name
SignalName(signal) == <<"S", "I", "G">> \o signal.basename

\* from_str that compares the string as it was written.
from_str_CaseSensitive(sig) ==
    LET signal_number == ParseI32(sig)
        hits == {k \in 1..Len(Catalog) :
                    \/ Catalog[k].basename = sig
                    \/ SignalName(Catalog[k]) = sig
                    \/ /\ IsSome(signal_number)
                       /\ Catalog[k].number = Unwrap(signal_number)}
    IN  IF hits = {} THEN Err("UnknownSignalName")
        ELSE Ok(Catalog[CHOOSE k \in hits : \A j \in hits : k <= j])

\* Signal::from_str: the first signal of the iterator whose basename or name
\* is the string in upper case, or whose number is the string parsed as i32.
from_str(sig) ==
    LET upper_sig == make_ascii_uppercase(sig)
        signal_number == ParseI32(sig)
        hits == {k \in 1..Len(Catalog) :
                    \/ Catalog[k].basename = upper_sig
                    \/ SignalName(Catalog[k]) = upper_sig
                    \/ /\ IsSome(signal_number)
                       /\ Catalog[k].number = Unwrap(signal_number)}
    IN  IF hits = {} THEN Err("UnknownSignalName")
        ELSE Ok(Catalog[CHOOSE k \in hits : \A j \in hits : k <= j])

RECURSIVE to_string(_)
\* i32::to_string, of a number that is not negative.
to_string(n) ==
    IF n < 10 THEN <<Digits[n + 1]>>
    ELSE to_string(n \div 10) \o <<Digits[(n % 10) + 1]>>

\* The string with every second letter in lower case.
MixedCase(s) ==
    [k \in 1..Len(s) |-> IF k % 2 = 0 THEN to_ascii_lowercase(s[k]) ELSE s[k]]

\* The strings from_str is called on: for every signal its basename and its
\* name in upper, lower and mixed case, its number, and its number with a
\* zero, a plus sign, a minus sign or a space put before it; and strings
\* that name no signal.
SignalStrings ==
    UNION {{Catalog[k].basename,
            make_ascii_lowercase(Catalog[k].basename),
            MixedCase(Catalog[k].basename),
            SignalName(Catalog[k]),
            make_ascii_lowercase(SignalName(Catalog[k])),
            MixedCase(SignalName(Catalog[k])),
            to_string(Catalog[k].number),
            <<"0">> \o to_string(Catalog[k].number),
            <<"+">> \o to_string(Catalog[k].number),
            <<"-">> \o to_string(Catalog[k].number),
            <<" ">> \o to_string(Catalog[k].number)} :
           k \in 1..Len(Catalog)}
    \cup {<<>>, <<"S", "I", "G">>, <<"0">>, <<"3", "2">>, <<"+">>,
          <<"f", "o", "o", "b", "a", "r">>, <<"s", "i", "g", "f", "o", "o">>,
          <<"3", "1", "3", "3", "7">>,
          <<"9", "9", "9", "9", "9", "9", "9", "9", "9", "9">>}

\* ---------------------------------------------------------------- SpecFn
\* The calls made: every function on every argument of its bounded set.
FnCalls ==
    {[fn |-> "parse_cmdline", arg |-> s] : s \in StringsOver(CmdChars)}
    \cup {[fn |-> "strip_comment", arg |-> s] : s \in StringsOver(LineChars)}
    \cup {[fn |-> "is_match", matcher |-> Matcher(ps, m),
           process |-> [pid |-> 1, user_id |-> 0, name |-> n, cmdline |-> c]] :
            ps \in SUBSET PatternPool, m \in MatchModes,
            n \in FieldPool, c \in FieldPool}
    \cup {[fn |-> "Process::all", read_dir |-> l] : l \in Listings}
    \cup {[fn |-> "Process::all_from_user", user |-> u, read_dir |-> l] :
            u \in Uids, l \in Listings}
    \cup {[fn |-> "all_processes", user_mode |-> u, matcher |-> m,
           read_dir |-> l] :
            u \in UserModes, m \in MatcherPool, l \in Listings}
    \cup {[fn |-> "Signal::from_str", arg |-> s] : s \in SignalStrings}
    \cup {[fn |-> "Process::send", errno |-> e] : e \in Errnos}
    \cup {[fn |-> "send_with_error_handling", errno |-> e] : e \in Errnos}

\* No run of the tool is going on.
NoRun ==
    /\ opts = OptionsFrom([wait_time |-> 0, no_kill |-> FALSE,
                           dry_run |-> FALSE, verbose |-> FALSE,
                           quiet |-> FALSE])
    /\ pc = "fn"
    /\ selected = <<>>
    /\ processes = <<>>
    /\ i = 1
    /\ success = TRUE
    /\ result = "none"
    /\ err = "none"
    /\ exit_code = -1
    /\ alive = [p \in Pids |-> TRUE]
    /\ elapsed = 0
    /\ polls = 0
    /\ calls = <<>>
    /\ out = <<>>

InitFn ==
    /\ NoRun
    /\ call \in FnCalls
    /\ ret = None

runVars == <<opts, pc, selected, processes, i, success, result, err,
             exit_code, alive, elapsed, polls, calls, out>>

CallParseCmdline ==
    /\ call.fn = "parse_cmdline"
    /\ ret = None
    /\ ret' = Some(parse_cmdline(call.arg))
    /\ UNCHANGED <<call, runVars>>

CallStripComment ==
    /\ call.fn = "strip_comment"
    /\ ret = None
    /\ ret' = Some(strip_comment(call.arg))
    /\ UNCHANGED <<call, runVars>>

CallIsMatch ==
    /\ call.fn = "is_match"
    /\ ret = None
    /\ ret' = Some(is_match(call.matcher, call.process))
    /\ UNCHANGED <<call, runVars>>

CallProcessAll ==
    /\ call.fn = "Process::all"
    /\ ret = None
    /\ ret' = Some(Process_all(call.read_dir))
    /\ UNCHANGED <<call, runVars>>

CallProcessAllFromUser ==
    /\ call.fn = "Process::all_from_user"
    /\ ret = None
    /\ ret' = Some(Process_all_from_user(call.user, call.read_dir))
    /\ UNCHANGED <<call, runVars>>

CallAllProcesses ==
    /\ call.fn = "all_processes"
    /\ ret = None
    /\ ret' = Some(select_processes(iter_of(call.user_mode, call.read_dir),
                                    call.matcher))
    /\ UNCHANGED <<call, runVars>>

CallFromStr ==
    /\ call.fn = "Signal::from_str"
    /\ ret = None
    /\ ret' = Some(from_str(call.arg))
    /\ UNCHANGED <<call, runVars>>

CallSend ==
    /\ call.fn = "Process::send"
    /\ ret = None
    /\ ret' = Some(Send(call.errno))
    /\ UNCHANGED <<call, runVars>>

CallSendWithErrorHandling ==
    /\ call.fn = "send_with_error_handling"
    /\ ret = None
    /\ ret' = Some(send_with_error_handling(Send(call.errno)))
    /\ UNCHANGED <<call, runVars>>

NextFn ==
    \/ CallSend
    \/ CallSendWithErrorHandling
    \/ CallFromStr
    \/ CallParseCmdline
    \/ CallStripComment
    \/ CallIsMatch
    \/ CallProcessAll
    \/ CallProcessAllFromUser
    \/ CallAllProcesses

SpecFn == InitFn /\ [][NextFn]_vars

\* ------------------------------------------------- reading the call log
Returned == pc \in {"returned", "exited"}

Res(b) == IF b THEN "Ok(true)" ELSE "Ok(false)"

\* The send calls made with signal sig, in order.
Sends(sig) == SelectSeq(calls, LAMBDA c : c.op = "send" /\ c.sig = sig)

\* The liveness checks made, in order.
LivenessChecks == SelectSeq(calls, LAMBDA c : c.op = "is_alive")

PidsOf(cs) == [k \in 1..Len(cs) |-> cs[k].pid]

\* The results send(terminate_signal) gave for process p.
TermResults(p) ==
    {c.res : c \in {d \in Range(Sends("terminate_signal")) : d.pid = p}}

FailedResults == {"InvalidSignal", "NoPermission", "UnexpectedError"}

Polled(p) == \E c \in Range(LivenessChecks) : c.pid = p

FoundDead(p) == \E c \in Range(LivenessChecks) : c.pid = p /\ c.res = "dead"

Killed(p) == \E c \in Range(Sends("kill_signal")) : c.pid = p

\* s is strictly increasing: the pids of ProcTable in discovery order, none
\* twice.
InDiscoveryOrder(s) == \A j, k \in 1..Len(s) : j < k => s[j] < s[k]

\* -------------------------------------------------------------------- C1
\* C1: in a dry run no signal is sent and no liveness poll is made, whatever
\* the wait and force-kill settings, and once the process list is built the
\* run returns Ok(true).
C1_DryRunTouchesNothing ==
    opts.dry_run =>
        /\ calls = <<>>
        /\ polls = 0
        /\ (Returned /\ err = "none") => result = "Ok(true)"

\* A dry run over a full process list, with a wait and force-kill set, has
\* returned.
C1_Witness ==
    /\ opts.dry_run
    /\ pc = "returned"
    /\ Len(selected) = MaxProcs
    /\ IsSome(opts.wait_time)
    /\ opts.kill

\* -------------------------------------------------------------------- C2
\* C2: a process whose send(terminate_signal) failed with InvalidSignal,
\* NoPermission or UnexpectedError is out of the tracked set from then on, is
\* never polled and never sent kill_signal, and the run's result is Ok(false).
C2_FailedTerminateDropped ==
    \A p \in Pids :
        (TermResults(p) \cap FailedResults # {}) =>
            /\ p \notin Range(processes)
            /\ ~success
            /\ ~Polled(p)
            /\ ~Killed(p)
            /\ Returned => result = "Ok(false)"

\* A terminate send failed for one process while another one went through the
\* wait and the kill phase.
C2_Witness ==
    /\ pc = "returned"
    /\ \E p \in Pids : TermResults(p) \cap FailedResults # {}
    /\ \E q \in Pids : Polled(q) /\ Killed(q)

\* The terminate phase left success true: no send(terminate_signal) failed.
Phase1Success == \A p \in Pids : TermResults(p) \cap FailedResults = {}

\* A real run (not dry, the process list was built).
RealRun == ~opts.dry_run /\ err = "none" /\ pc # "run"

\* A wait of zero never reaches real_run as Some: absent and zero are one case.
NoWait == ~IsSome(opts.wait_time) \/ Unwrap(opts.wait_time) = 0

\* The run has been through "Time is up": with a wait, real_run returns either
\* from a poll that left nothing tracked or through the timed-out branch.
TimedOut ==
    \/ pc \in {"timeout", "kill"}
    \/ /\ Returned
       /\ RealRun
       /\ ~NoWait
       /\ ~(polls > 0 /\ processes = <<>>)

\* -------------------------------------------------------------------- C3
\* C3 as claimed: once the terminate phase is over, a process whose
\* send(terminate_signal) returned DoesNotExist is out of the tracked set, is
\* never polled and never sent kill_signal.
C3_Original ==
    \A p \in Pids :
        ("DoesNotExist" \in TermResults(p) /\ pc # "terminate") =>
            /\ p \notin Range(processes)
            /\ ~Polled(p)
            /\ ~Killed(p)

\* C3, amended: DoesNotExist leaves success as it was (success after the
\* terminate phase is false only for a failed send), and the process stays in
\* the tracked set: every liveness poll made while it is tracked checks it,
\* and only a poll that finds it dead removes it.
C3_DoesNotExistKept ==
    /\ pc = "terminate" => (success <=> Phase1Success)
    /\ \A p \in Pids :
        "DoesNotExist" \in TermResults(p) =>
            /\ ~FoundDead(p) => p \in Range(processes)
            /\ (polls > 0 /\ pc # "poll") => Polled(p)

\* The only process answered DoesNotExist, success is still true, and the
\* waiting phase has polled that process.
C3_Witness ==
    /\ \E p \in Pids : "DoesNotExist" \in TermResults(p) /\ Polled(p)
    /\ Len(selected) = 1
    /\ success
    /\ pc = "returned"

C5_NoKillGivesUp ==
    (~opts.kill /\ ~opts.dry_run) =>
        /\ Sends("kill_signal") = <<>>
        /\ \A j, k \in 1..Len(calls) :
              (j < k /\ calls[j].op = "is_alive") => calls[k].op = "is_alive"
        /\ (TimedOut /\ Returned /\ processes # <<>>) => result = "Ok(false)"
        /\ pc # "kill"

\* The wait timed out without force-kill: a process whose terminate send was
\* accepted was polled alive and is still tracked.
C5_Witness ==
    /\ ~opts.kill
    /\ TimedOut
    /\ pc = "returned"
    /\ Phase1Success
    /\ \E p \in Range(processes) : Polled(p) /\ alive[p]

\* -------------------------------------------------------------------- C6
\* The processes still tracked when the wait runs out: selected, terminate
\* send not failed, not found dead by a poll; in discovery order.
Survivors ==
    SelectSeq(selected,
              LAMBDA p : TermResults(p) \cap FailedResults = {} /\ ~FoundDead(p))

\* C6: with force-kill, a wait that timed out sends kill_signal exactly once
\* to each process still tracked and to no other, and nothing follows a kill
\* send but kill sends and the return: no liveness check, no wait.
C6_KillEverySurvivorOnce ==
    (opts.kill /\ RealRun) =>
        /\ (TimedOut /\ Returned) => PidsOf(Sends("kill_signal")) = Survivors
        /\ pc = "kill" =>
              PidsOf(Sends("kill_signal")) = SubSeq(Survivors, 1, i - 1)
        /\ \A j, k \in 1..Len(calls) :
              (j < k /\ calls[j].sig = "kill_signal") =>
                  calls[k].sig = "kill_signal"
        /\ Sends("kill_signal") # <<>> =>
              /\ pc \in {"kill", "returned", "exited"}
              /\ elapsed >= Unwrap(opts.wait_time)

\* After the timeout one process got kill_signal and another, found dead by a
\* poll, did not.
C6_Witness ==
    /\ opts.kill
    /\ pc = "returned"
    /\ Sends("kill_signal") # <<>>
    /\ \E p \in Pids : FoundDead(p) /\ ~Killed(p)

\* -------------------------------------------------------------------- C7
\* C7: when a poll leaves the tracked set empty, real_run returns at once with
\* the success of the terminate phase, and kill_signal is sent to no process.
C7_AllDeadReturns ==
    (polls > 0 /\ processes = <<>> /\ pc # "poll") =>
        /\ Returned
        /\ result = Res(Phase1Success)
        /\ Sends("kill_signal") = <<>>

\* A poll found the last tracked process dead before the wait had elapsed.
C7_Witness ==
    /\ pc = "returned"
    /\ polls > 0
    /\ processes = <<>>
    /\ selected # <<>>
    /\ \E p \in Pids : FoundDead(p)
    /\ elapsed < Unwrap(opts.wait_time)

\* -------------------------------------------------------------------- C8
\* send(terminate_signal) was accepted for p (DoesNotExist counted: the
\* process is gone).
SignalledOk(p) ==
    TermResults(p) # {} /\ TermResults(p) \cap FailedResults = {}

\* C8 as claimed: the result is Ok(true) iff every selected process was
\* signalled and, when a wait is configured, found dead by a poll, and the
\* wait did not run out with force-kill disabled.
C8_Original ==
    (Returned /\ RealRun) =>
        (result = "Ok(true)" <=>
            /\ \A p \in Range(selected) :
                  SignalledOk(p) /\ (~NoWait => FoundDead(p))
            /\ ~(TimedOut /\ ~opts.kill))

\* C8, amended: the result of a real run is Ok(true) iff no
\* send(terminate_signal) failed and the run ended in one of three ways: no
\* wait configured; a poll left the tracked set empty; the wait ran out with
\* force-kill enabled and no send(kill_signal) failed.  The processes
\* kill_signal was sent to are not confirmed dead.
C8_SuccessValue ==
    (Returned /\ RealRun) =>
        (result = "Ok(true)" <=>
            /\ Phase1Success
            /\ \/ NoWait
               \/ polls > 0 /\ processes = <<>>
               \/ /\ opts.kill
                  /\ \A c \in Range(Sends("kill_signal")) :
                        c.res \notin FailedResults)

\* Ok(true) after an escalation: a process was sent kill_signal and no poll
\* ever found it dead.
C8_Witness ==
    /\ pc = "returned"
    /\ result = "Ok(true)"
    /\ \E p \in Pids : Killed(p) /\ Polled(p) /\ ~FoundDead(p)

\* -------------------------------------------------------------------- C9
\* C9: send(terminate_signal) is attempted once for each selected process, in
\* discovery order, a failed send not stopping the later ones; the kill
\* sends are in discovery order too.
C9_EveryProcessAttemptedInOrder ==
    /\ PidsOf(Sends("terminate_signal"))
          = SubSeq(selected, 1, Len(Sends("terminate_signal")))
    /\ (RealRun /\ pc # "terminate") =>
          PidsOf(Sends("terminate_signal")) = selected
    /\ InDiscoveryOrder(PidsOf(Sends("kill_signal")))
    /\ Range(PidsOf(Sends("kill_signal"))) \subseteq Range(selected)

\* The send to the first selected process failed, and the next one was still
\* signalled and later sent kill_signal.
C9_Witness ==
    /\ Len(selected) >= 2
    /\ TermResults(selected[1]) \cap FailedResults # {}
    /\ "Ok" \in TermResults(selected[2])
    /\ Killed(selected[2])

\* ------------------------------------------------------------------- C10
\* C10: when the patterns do not compile, the user is unknown or the process
\* table cannot be read, run returns Err and no process is touched: no
\* signal sent, no liveness poll made, no process selected.
C10_FatalErrorTouchesNothing ==
    /\ err # "none" =>
          /\ pc # "run" => (Returned /\ result = "Err")
          /\ calls = <<>>
          /\ polls = 0
          /\ selected = <<>>
    /\ result = "Err" => err # "none"

\* run returned Err because the process table could not be read.
C10_Witness ==
    /\ err = "enumeration"
    /\ result = "Err"
    /\ ~opts.dry_run
    /\ pc = "returned"

\* ------------------------------------------------------------------- C15
\* The call of function f has returned.
Called(f) == call.fn = f /\ IsSome(ret)

\* C15: parse_cmdline gives the input with every NUL turned into one space
\* and the trailing whitespace cut off: the result has no NUL and no trailing
\* whitespace, and parse_cmdline leaves it as it is (idempotence).
C15_ParseCmdline ==
    Called("parse_cmdline") =>
        LET s == call.arg
            r == Unwrap(ret)
        IN  /\ Len(r) <= Len(s)
            /\ \A k \in 1..Len(r) :
                  r[k] = IF s[k] = "NUL" THEN " " ELSE s[k]
            /\ \A k \in (Len(r) + 1)..Len(s) : s[k] \in Whitespace \cup {"NUL"}
            /\ \A k \in 1..Len(r) : r[k] # "NUL"
            /\ r # <<>> => r[Len(r)] \notin Whitespace
            /\ parse_cmdline(r) = r

\* The shape of "/bin/sh\0-c\0": two arguments, each ended by NUL, come out
\* as the two joined by one space.
C15_Witness ==
    /\ Called("parse_cmdline")
    /\ call.arg = <<"a", "NUL", "a", "NUL">>
    /\ Unwrap(ret) = <<"a", " ", "a">>

\* ------------------------------------------------------------------- C17
\* A blank line: nothing but whitespace.
Blank(s) == \A k \in 1..Len(s) : s[k] \in Whitespace

\* The text of a line before its comment: up to the first '#', the whole line
\* when there is none.
BeforeComment(line) ==
    IF Find(line, "#") > 0 THEN SubSeq(line, 1, Find(line, "#") - 1) ELSE line

\* C17: strip_comment gives the text before the first '#' trimmed, a line
\* without '#' unchanged, never a '#'; and a line that is blank once the
\* comment is gone gives the empty string and is no pattern.
C17_StripComment ==
    Called("strip_comment") =>
        LET line == call.arg
            r == Unwrap(ret)
        IN  /\ Find(line, "#") > 0 => r = Trim(BeforeComment(line))
            /\ Find(line, "#") = 0 => r = line
            /\ \A k \in 1..Len(r) : r[k] # "#"
            /\ Blank(BeforeComment(line)) => (r = <<>> /\ ~is_pattern(r))

\* ------------------------------------------------------------------- C11
\* Letters a and b are the same but for their case.
SameLetter(a, b) == to_ascii_uppercase(a) = to_ascii_uppercase(b)

\* The pattern occurs in the text as a substring, case-insensitively.
OccursIn(pattern, text) ==
    \E k \in 0..(Len(text) - Len(pattern)) :
        \A j \in 1..Len(pattern) : SameLetter(pattern[j], text[k + j])

\* The field of the process the mode selects.
SelectedField(mode, process) ==
    IF mode = "Basename" THEN process.name ELSE process.cmdline

\* C11: is_match is true exactly when some pattern of the set occurs,
\* case-insensitively and as a substring, in the field the mode selects (the
\* name for Basename, the command line for Commandline); an empty pattern set
\* matches no process, and the field the mode does not select has no effect.
C11_IsMatch ==
    Called("is_match") =>
        LET m == call.matcher
            p == call.process
        IN  /\ Unwrap(ret) =
                 (\E pattern \in m.regex_set :
                     OccursIn(pattern, SelectedField(m.mode, p)))
            /\ m.regex_set = {} => Unwrap(ret) = FALSE
            /\ \A other \in FieldPool :
                 /\ m.mode = "Basename" =>
                      is_match(m, [p EXCEPT !.cmdline = other]) = Unwrap(ret)
                 /\ m.mode = "Commandline" =>
                      is_match(m, [p EXCEPT !.name = other]) = Unwrap(ret)

\* Basename mode, pattern foo, a process named FOO whose command line has no
\* foo in it: matched, by its name and whatever the case.
C11_Witness ==
    /\ Called("is_match")
    /\ call.matcher = Matcher({foo}, "Basename")
    /\ call.process.name = FOO
    /\ call.process.cmdline = sh
    /\ Unwrap(ret) = TRUE

\* ------------------------------------------------------------------- C12
\* The positions of seq that satisfy Keep(_).
Positions(seq, Keep(_)) == {k \in 1..Len(seq) : Keep(seq[k])}

\* sub is seq cut down to the positions of set at, in the order of seq.
IsSelection(sub, seq, at) ==
    /\ Len(sub) = Cardinality(at)
    /\ \A k \in at : sub[Cardinality({j \in at : j <= k})] = seq[k]

\* The names of the processes of a list.
NamesOf(procs) == [k \in 1..Len(procs) |-> procs[k].name]

\* C12: the list all_processes builds is the enumerated processes cut down
\* to those is_match accepts, in enumeration order: every matching process is
\* in it, no other is, and the order is kept; foo, barfoo, baz with pattern
\* foo in basename mode give foo, barfoo.
C12_SelectedIsMatchingSubsequence ==
    Called("all_processes") =>
        LET enumerated == flat_map_ok(iter_of(call.user_mode, call.read_dir))
            matching(process) == is_match(call.matcher, process)
        IN  /\ IsSelection(Unwrap(ret), enumerated,
                           Positions(enumerated, matching))
            /\ (/\ NamesOf(enumerated) = <<foo, barfoo, baz>>
                /\ call.matcher = Matcher({foo}, "Basename"))
               => NamesOf(Unwrap(ret)) = <<foo, barfoo>>

\* The three processes foo, barfoo, baz enumerated, pattern foo, basename
\* mode: foo and barfoo selected in that order, baz left out.
C12_Witness ==
    /\ Called("all_processes")
    /\ call.user_mode = None
    /\ call.matcher = Matcher({foo}, "Basename")
    /\ NamesOf(flat_map_ok(Process_all(call.read_dir))) = <<foo, barfoo, baz>>
    /\ NamesOf(Unwrap(ret)) = <<foo, barfoo>>

\* ------------------------------------------------------------------- C13
\* The entry is a directory named by digits: what the enumeration takes for
\* a process.
IsProcessDir(entry) ==
    /\ entry.read = "Ok"
    /\ entry.is_dir
    /\ \A k \in 1..Len(entry.file_name) : IsDigit(entry.file_name[k])

\* The entry resolves: its pid parses and its exe link, cmdline and owner can
\* be read.
Resolves(entry) ==
    /\ IsProcessDir(entry)
    /\ IsSome(ParseI32(entry.file_name))
    /\ IsSome(entry.exe)
    /\ IsSome(entry.cmdline)
    /\ IsSome(entry.uid)

\* The enumeration was called and has returned its items.
Enumerated == Called("Process::all") \/ Called("Process::all_from_user")

\* C13 as stated: an entry that fails to resolve is skipped by the
\* enumeration sequence, which never yields an error item.
C13_Original ==
    Enumerated => \A k \in 1..Len(Unwrap(ret)) : Unwrap(ret)[k].ok

\* The pids of the processes of a list.
ProcessPids(procs) == [k \in 1..Len(procs) |-> procs[k].pid]

\* C13, amended: the enumeration sequence yields one item for every
\* directory with a numeric name, in the order of the listing: an error item
\* for an entry that fails to resolve, the process for one that resolves,
\* whatever came before it; all_processes drops the error items, so that the
\* processes it looks at are those of the entries that resolve, none left
\* out.
C13_UnresolvedYieldedThenDropped ==
    /\ Called("Process::all") =>
         LET l == call.read_dir
             r == Unwrap(ret)
             at == Positions(l, IsProcessDir)
         IN  /\ Len(r) = Cardinality(at)
             /\ \A k \in at :
                  LET item == r[Cardinality({j \in at : j <= k})]
                  IN  /\ item.ok <=> Resolves(l[k])
                      /\ item.ok =>
                           Some(item.val.pid) = ParseI32(l[k].file_name)
    /\ (Called("all_processes") /\ call.user_mode = None
        /\ call.matcher = Matcher({foo}, "Commandline")) =>
         LET l == call.read_dir
             at == Positions(l, Resolves)
         IN  /\ Len(Unwrap(ret)) = Cardinality(at)
             /\ \A k \in at :
                  Some(Unwrap(ret)[Cardinality({j \in at : j <= k})].pid)
                     = ParseI32(l[k].file_name)

\* A listing with an entry whose exe link cannot be read before a process
\* that resolves: the sequence yields an error item, then the process.
C13_Witness ==
    /\ Called("Process::all")
    /\ Len(call.read_dir) = 2
    /\ IsProcessDir(call.read_dir[1]) /\ ~Resolves(call.read_dir[1])
    /\ Resolves(call.read_dir[2])
    /\ Len(Unwrap(ret)) = 2
    /\ ~Unwrap(ret)[1].ok
    /\ Unwrap(ret)[2].ok

\* ------------------------------------------------------------------- C14
\* C14: the processes of the enumeration for user U are those of the
\* enumeration for everybody that U owns, in the same order; no process of
\* another user is yielded, nor selected by all_processes.
C14_UserScopedEnumeration ==
    /\ Called("Process::all_from_user") =>
         LET unscoped == flat_map_ok(Process_all(call.read_dir))
             owned(process) == process.user_id = call.user
         IN  /\ IsSelection(flat_map_ok(Unwrap(ret)), unscoped,
                            Positions(unscoped, owned))
             /\ \A k \in 1..Len(Unwrap(ret)) :
                  Unwrap(ret)[k].ok => Unwrap(ret)[k].val.user_id = call.user
    /\ (Called("all_processes") /\ IsSome(call.user_mode)) =>
         \A k \in 1..Len(Unwrap(ret)) :
            Unwrap(ret)[k].user_id = Unwrap(call.user_mode)

\* The enumeration for user 0 of a listing with foo (user 0), barfoo (user 1)
\* and baz (user 0): foo and baz are yielded, barfoo is not.
C14_Witness ==
    /\ Called("Process::all_from_user")
    /\ call.user = 0
    /\ NamesOf(flat_map_ok(Process_all(call.read_dir))) = <<foo, barfoo, baz>>
    /\ NamesOf(flat_map_ok(Unwrap(ret))) = <<foo, baz>>

\* ------------------------------------------------------------------- C16
\* The signals of the catalog.
Signals == Range(Catalog)

\* The string is the basename or the name of the signal, in any letter case.
NamesSignal(s, signal) ==
    \/ /\ Len(s) = Len(signal.basename)
       /\ \A k \in 1..Len(s) : SameLetter(s[k], signal.basename[k])
    \/ /\ Len(s) = Len(signal.basename) + 3
       /\ SameLetter(s[1], "S") /\ SameLetter(s[2], "I")
       /\ SameLetter(s[3], "G")
       /\ \A k \in 1..Len(signal.basename) :
            SameLetter(s[k + 3], signal.basename[k])

\* C16 as stated: the basename, the name in any letter case and the decimal
\* number of a signal each parse to that signal, and a string that is none of
\* these for any signal is an unknown signal name.
C16_Original ==
    Called("Signal::from_str") =>
        LET s == call.arg
            r == Unwrap(ret)
            form(signal) ==
                NamesSignal(s, signal) \/ s = to_string(signal.number)
        IN  /\ \A signal \in Signals :
                 form(signal) => (r.ok /\ r.val = signal)
            /\ (\A signal \in Signals : ~form(signal)) => ~r.ok

RECURSIVE WithoutLeadingZeros(_)
\* The digits without the zeros they start with, but for the last digit.
WithoutLeadingZeros(digits) ==
    IF Len(digits) > 1 /\ digits[1] = "0"
    THEN WithoutLeadingZeros(Tail(digits))
    ELSE digits

\* The string is a number written in decimal, with or without a plus sign
\* and zeros before it.
WritesNumber(s, n) ==
    LET digits == IF s # <<>> /\ s[1] = "+" THEN Tail(s) ELSE s
    IN  /\ digits # <<>>
        /\ \A k \in 1..Len(digits) : IsDigit(digits[k])
        /\ WithoutLeadingZeros(digits) = to_string(n)

\* C16, amended: the basename, the name in any letter case and the number of
\* a signal, written in decimal with or without a plus sign and leading
\* zeros, each parse to that signal, and a string that is none of these for
\* any signal is an unknown signal name.
C16_SignalParsing ==
    Called("Signal::from_str") =>
        LET s == call.arg
            r == Unwrap(ret)
            form(signal) ==
                NamesSignal(s, signal) \/ WritesNumber(s, signal.number)
        IN  /\ \A signal \in Signals :
                 form(signal) => (r.ok /\ r.val = signal)
            /\ (\A signal \in Signals : ~form(signal)) => ~r.ok

\* "SiGkIlL" parses to the signal KILL, number 9.
C16_Witness ==
    /\ Called("Signal::from_str")
    /\ call.arg = MixedCase(<<"S", "I", "G", "K", "I", "L", "L">>)
    /\ Unwrap(ret).ok
    /\ Unwrap(ret).val = Sig(<<"K", "I", "L", "L">>, 9)

\* ------------------------------------------------------------------- C18
\* C18: in quiet output mode the run renders nothing; the line for a failed
\* send of terminate_signal or kill_signal is not printed.
C18_QuietRendersNothing ==
    opts.output_mode = "Quiet" => out = <<>>

\* ------------------------------------------------------------------- C19
\* C19: the exit status is 0 exactly when run returned Ok(true); Ok(false)
\* and a fatal error both exit with a status that is not 0.
C19_ExitStatus ==
    pc = "exited" =>
        /\ exit_code = 0 <=> result = "Ok(true)"
        /\ result \in {"Ok(false)", "Err"} => exit_code # 0
        /\ (RealRun /\ result # "Err") => (exit_code = 0 <=> success)

\* A run whose send of terminate_signal failed has exited with status 1.
C19_Witness ==
    /\ pc = "exited"
    /\ result = "Ok(false)"
    /\ ~Phase1Success
    /\ exit_code = 1

\* ------------------------------------------------------------------- C20
\* The waiting phase: the loop of real_run between the terminate phase and
\* "Time is up".
Waiting == pc \in {"check", "sleep", "poll"}

\* C20: in the waiting phase the tracked set is what the terminate phase kept
\* less the processes a poll found dead, in the same order; a poll reports
\* dead only a process that is dead and keeps the ones it found alive; and no
\* signal is sent while waiting: each selected process was sent
\* terminate_signal once, in the terminate phase, and kill_signal is sent to
\* none.
C20_PollRemovesExactlyDead ==
    (RealRun /\ Waiting) =>
        /\ processes = Survivors
        /\ \A c \in Range(LivenessChecks) : c.res = "dead" => ~alive[c.pid]
        /\ pc = "poll" => \A k \in 1..Min(i - 1, Len(processes)) :
                             alive[processes[k]]
        /\ PidsOf(Sends("terminate_signal")) = selected
        /\ Sends("kill_signal") = <<>>
        /\ \A j, k \in 1..Len(calls) :
              (j < k /\ calls[j].op = "is_alive") => calls[k].op = "is_alive"

\* In the waiting phase, after a poll that found one process dead and kept
\* another that is alive.
C20_Witness ==
    /\ Waiting
    /\ polls > 0
    /\ processes # <<>>
    /\ \E p \in Pids : FoundDead(p)
    /\ \E c \in Range(LivenessChecks) : c.res = "alive"

\* ------------------------------------------------------------------- C21
\* The liveness checks made on process p, in order.
Checks(p) == SelectSeq(LivenessChecks, LAMBDA c : c.pid = p)

\* Every poll made checked p and found it alive.
AliveAtEveryPoll(p) ==
    /\ Len(Checks(p)) = polls
    /\ \A k \in 1..Len(Checks(p)) : Checks(p)[k].res = "alive"

\* C21 as stated: when kill_signal has been sent, the wait has elapsed, at
\* least one poll was made, and the most recent poll reported every process
\* it was sent to alive.
C21_Original ==
    Sends("kill_signal") # <<>> =>
        /\ IsSome(opts.wait_time)
        /\ elapsed >= Unwrap(opts.wait_time)
        /\ polls > 0
        /\ \A c \in Range(Sends("kill_signal")) : AliveAtEveryPoll(c.pid)

\* C21, amended: kill_signal is sent only after the timeout: the wait has
\* elapsed, and every process it is sent to was kept by the terminate phase
\* and reported alive by every poll made, the most recent included; when the
\* wait had elapsed at the first reading of the clock no poll was made at
\* all.
C21_KillOnlyAfterTimeout ==
    Sends("kill_signal") # <<>> =>
        /\ opts.kill
        /\ IsSome(opts.wait_time)
        /\ elapsed >= Unwrap(opts.wait_time)
        /\ \A c \in Range(Sends("kill_signal")) :
              /\ AliveAtEveryPoll(c.pid)
              /\ TermResults(c.pid) # {}
              /\ TermResults(c.pid) \cap FailedResults = {}

\* kill_signal went to a process that two polls had reported alive.
C21_Witness ==
    /\ Sends("kill_signal") # <<>>
    /\ polls = 2
    /\ \E c \in Range(Sends("kill_signal")) : Len(Checks(c.pid)) = 2

\* ------------------------------------------------------------------- C22
\* A poll is under way.
Polling == pc = "poll"

\* C22 as stated: every run returns, and no poll starts once the wait has
\* elapsed.
C22_Original ==
    /\ <>Returned
    /\ [](Polling => elapsed < Unwrap(opts.wait_time))

\* C22, amended: every run returns, whatever the processes do; a poll is
\* begun only when the clock read below the wait before the sleep that comes
\* first, so that a wait of n sleeps sees at most n polls, the last of which
\* may start when the wait has elapsed.
C22_Terminates ==
    /\ <>Returned
    /\ [](polls > 0 =>
            /\ IsSome(opts.wait_time)
            /\ (polls - 1) * SleepTicks < Unwrap(opts.wait_time))
    /\ [](pc = "sleep" => elapsed < Unwrap(opts.wait_time))

\* The run has returned after as many polls as the wait allows with a process
\* that never exited.
C22_Witness ==
    /\ Returned
    /\ IsSome(opts.wait_time)
    /\ polls * SleepTicks = Unwrap(opts.wait_time)
    /\ polls > 1
    /\ \E p \in Pids : Len(Checks(p)) = polls /\ alive[p]

\* ------------------------------------------------------------------- C23
\* The run went through the escalation: the timed-out branch with force-kill.
Escalated == RealRun /\ opts.kill /\ TimedOut

\* The kill sends that failed.
FailedKills ==
    SelectSeq(Sends("kill_signal"), LAMBDA c : c.res \in FailedResults)

\* C23: after escalation the success returned is that of the terminate phase
\* and-ed with the outcomes of the kill sends: Ok and DoesNotExist leave it
\* as it is, InvalidSignal, NoPermission and UnexpectedError make it false;
\* and the processes tracked after a failed kill send are sent kill_signal
\* all the same.
C23_EscalationSuccess ==
    /\ (Escalated /\ Returned) =>
          /\ result = Res(Phase1Success /\ FailedKills = <<>>)
          /\ Len(Sends("kill_signal")) = Len(processes)
    /\ (Escalated /\ pc = "kill") =>
          /\ success = (Phase1Success /\ FailedKills = <<>>)
          /\ Len(Sends("kill_signal")) = i - 1
          /\ PidsOf(Sends("kill_signal")) = SubSeq(processes, 1, i - 1)

\* The first of two kill sends failed, the second was made all the same, and
\* the run, whose terminate phase was a success, returned false.
C23_Witness ==
    /\ Escalated /\ Returned
    /\ Phase1Success
    /\ Len(Sends("kill_signal")) = 2
    /\ Sends("kill_signal")[1].res \in FailedResults
    /\ Sends("kill_signal")[2].res \in {"Ok", "DoesNotExist"}
    /\ result = "Ok(false)"

\* ------------------------------------------------------------------- C24
\* The results of Process::send.
SendResults ==
    {"Ok", "InvalidSignal", "NoPermission", "DoesNotExist", "UnexpectedError"}

\* C24: Process::send gives one result for each answer of kill: Ok when the
\* signal was accepted, InvalidSignal for EINVAL, NoPermission for EPERM,
\* DoesNotExist for ESRCH, UnexpectedError for any other errno; and
\* send_with_error_handling takes for a success Ok and, of the errors,
\* DoesNotExist alone.
C24_SendOutcomes ==
    /\ Called("Process::send") =>
          /\ Unwrap(ret) \in SendResults
          /\ Unwrap(ret) = "Ok" <=> call.errno = "OK"
          /\ Unwrap(ret) = "InvalidSignal" <=> call.errno = "EINVAL"
          /\ Unwrap(ret) = "NoPermission" <=> call.errno = "EPERM"
          /\ Unwrap(ret) = "DoesNotExist" <=> call.errno = "ESRCH"
          /\ Unwrap(ret) = "UnexpectedError" <=>
                call.errno \notin {"OK", "EINVAL", "EPERM", "ESRCH"}
    /\ Called("send_with_error_handling") =>
          (Unwrap(ret) = TRUE <=> call.errno \in {"OK", "ESRCH"})

\* kill answered ESRCH and send_with_error_handling returned true.
C24_Witness ==
    /\ Called("send_with_error_handling")
    /\ call.errno = "ESRCH"
    /\ Unwrap(ret) = TRUE

\* ------------------------------------------------------------------- C25
\* a is b with some elements left out, b being in discovery order.
IsSubsequence(a, b) == InDiscoveryOrder(a) /\ Range(a) \subseteq Range(b)

\* C25: the tracked set is at every point a subsequence of the selected list
\* in discovery order; a step of the run only takes processes out of it, so a
\* process that has left it never comes back; and success, once false, stays
\* false.
C25_TrackedOnlyShrinks ==
    /\ [](RealRun => /\ InDiscoveryOrder(selected)
                     /\ IsSubsequence(processes, selected))
    /\ [][pc # "run" => /\ IsSubsequence(processes', processes)
                        /\ selected' = selected
                        /\ ~success => ~success']_vars

\* Of two selected processes one left the tracked set for a failed send and
\* the other for being found dead, and the run returned false.
C25_Witness ==
    /\ Returned
    /\ Len(selected) = 2
    /\ processes = <<>>
    /\ ~success
    /\ \E p \in Pids : FoundDead(p)
    /\ \E p \in Pids : TermResults(p) \cap FailedResults # {}

\* ------------------------------------------------------------------- C26
\* The processes the terminate phase kept.
KeptByTerminate ==
    SelectSeq(selected, LAMBDA p : TermResults(p) \cap FailedResults = {})

\* The line "WARNING: Some processes are still alive." was printed.
ReportedStillAlive == \E k \in 1..Len(out) : out[k].kind = "still_alive_warning"

\* C26: the timed-out branch is reached only with a tracked set that is not
\* empty: a run whose tracked set is empty after the terminate phase never
\* reports processes still alive and returns the success of the terminate
\* phase.
C26_TimedOutOnlyWithTracked ==
    RealRun =>
        /\ pc \in {"timeout", "kill"} => processes # <<>>
        /\ (pc # "terminate" /\ KeptByTerminate = <<>>) =>
              /\ ~ReportedStillAlive
              /\ Returned => result = Res(Phase1Success)

====
